---- MODULE Spec2Model ----
(***************************************************************************)
(* A model of the two notebooks of the repository:                         *)
(*   src/ch05/blackjack-prediction.ipynb  (one play of blackjack())        *)
(*   src/ch03/gridworld-example.ipynb     (the tensor p_gridworld, the     *)
(*                                         linear system A v = b)          *)
(* The two programs share nothing.  Spec runs one play of blackjack() with *)
(* the Gridworld notebook not loaded; GridSpec runs the Gridworld cells    *)
(* with no play of blackjack() in progress.                                *)
(***************************************************************************)
EXTENDS Integers, Sequences, FiniteSets, TLC

VARIABLES
    \* ---- blackjack(): arguments, locals and the returned value
    player_value_cards,   \* argument, then the running total of the player
    dealer_cards,         \* argument: the dealer's two initial cards
    policy,               \* argument: policy[g][a], g = value - 12, a in {0 hit, 1 stick}
    has_usable_ace,       \* argument, then or-ed with update_player_card's flag
    reward,
    hist_reward,
    hist_action,
    dealer_value_cards,   \* np.sum(dealer_cards), then the total inside dealer_strategy
    dealer_draws,         \* calls of draw_card() made by dealer_strategy (saturates at MaxDraws)
    result,               \* the value returned: <<>> before the return
    pc,                   \* position inside blackjack()
    replay,               \* two plays on one stream of cards: the run, the arguments of
                          \* the first call, the cards drawn, the first play's outcome
    \* ---- the Gridworld notebook
    p_gridworld,          \* p(s', r | a, s), indexed [s'][r_pos][a_pos][s], in units of 1/Unit
    g_s, g_r, g_a,        \* the three loop indices of the construction
    new_pos,              \* global new_pos (read by is_out_of_bounds)
    new_state,            \* global new_state
    b,                    \* the right-hand side, scaled by 4 * Unit
    A,                    \* the matrix, scaled by 40 * Unit
    vs_star,              \* the vector the root finder returned, in units of 1/ValueDen
    optimal_actions,      \* optimal_actions[a][s], a boolean array
    gpc                   \* the cell of the Gridworld notebook being run

bjvars == <<player_value_cards, dealer_cards, policy, has_usable_ace, reward,
            hist_reward, hist_action, dealer_value_cards, dealer_draws, result, pc,
            replay>>
gridvars == <<p_gridworld, g_s, g_r, g_a, new_pos, new_state, b, A, vs_star,
              optimal_actions, gpc>>
vars == <<bjvars, gridvars>>

----------------------------------------------------------------------------
(* Bounds of the model *)

\* hist_reward holds at most MaxHist entries while the player loop runs
MaxHist == 4
\* dealer_draws counts up to MaxDraws and stays there
MaxDraws == 2
\* the first of two plays on one stream of cards draws at most MaxTape cards
MaxTape == 3

----------------------------------------------------------------------------
(* Blackjack: src/ch05/blackjack-prediction.ipynb *)

\* The only deck_probs of the notebook: ten weights, the last one 4 (lines 297-298, 311-312)
deck_probs == [i \in 0..9 |-> IF i = 9 THEN 4 ELSE 1]

\* draw_card(): np.random.multinomial(1, deck_probs).argmax() is the index of the
\* one-hot sample, so every index of positive weight can be returned
draw_card == {i \in DOMAIN deck_probs : deck_probs[i] > 0}

\* update_player_card(current_value, new_card): <<new_value, has_usable_ace>>
update_player_card(current_value, new_card) ==
    IF new_card = 1 /\ current_value <= 10
    THEN <<current_value + 11, TRUE>>
    ELSE <<current_value + new_card, FALSE>>

\* lines 162-163: the hand value and the flag after a hit,
\* has_usable_ace = has_usable_ace or new_has_usable_ace
HitUpdateMutant(current_value, usable, new_card) ==
    LET u == update_player_card(current_value, new_card)
    IN IF usable /\ u[1] > 21 THEN <<u[1] - 10, FALSE>> ELSE <<u[1], usable \/ u[2]>>
HitUpdate(current_value, usable, new_card) ==
    LET u == update_player_card(current_value, new_card)
    IN <<u[1], usable \/ u[2]>>

\* the test of the player loop, negated: policy[player_value_cards - 12][1] == 1.0
PolicySticksMutant(pol, value) == pol[value - 12][0] = 1
PolicySticks(pol, value) == pol[value - 12][1] = 1

\* the test of dealer_strategy's loop: value_cards < 17
DealerDrawsAtMutant(value_cards) == value_cards <= 17
DealerDrawsAt(value_cards) == value_cards < 17

\* the test of line 144: player_value_cards == 21 and dealer_value_cards != 21
IsNatural(pv, dv) == pv = 21 /\ dv # 21

\* the reward of lines 173-178
FinalRewardMutant(pv, dv) ==
    IF dv > 21 THEN 1
    ELSE IF pv > 21 THEN -1
    ELSE IF pv > dv THEN 1 ELSE 0
FinalRewardLossMutant(pv, dv) ==
    IF pv > 21 THEN -1
    ELSE IF dv > 21 THEN 1
    ELSE IF pv > dv THEN 1 ELSE IF pv < dv THEN -1 ELSE 0
FinalReward(pv, dv) ==
    IF pv > 21 THEN -1
    ELSE IF dv > 21 THEN 1
    ELSE IF pv > dv THEN 1 ELSE 0

\* ---- inputs of a play
InitialHands == 12..21
DealerCardValues == {1, 2, 5, 6, 10, 11}
StickSets == {{20, 21}, {}, 12..21, {21}, {20}, {17, 18, 19, 20, 21}, {12, 20, 21}}
PolicyOf(S) == [g \in 0..9 |-> [a \in 0..1 |-> IF (a = 1) <=> (g + 12 \in S) THEN 1 ELSE 0]]
Policies == {PolicyOf(S) : S \in StickSets}

GridOff ==
    /\ p_gridworld = <<>>
    /\ g_s = 0 /\ g_r = 0 /\ g_a = 0
    /\ new_pos = <<0, 0>>
    /\ new_state = 0
    /\ b = <<>>
    /\ A = <<>>
    /\ vs_star = <<>>
    /\ optimal_actions = <<>>
    /\ gpc = "off"

\* ---- the stream of cards behind draw_card()
\* A single play draws fresh cards.  Of two plays on one stream, the first
\* records what draw_card() returned and the second is dealt the same cards
\* in the same order; past the end of the record the stream is fresh again.
ReplayOff ==
    [run |-> "off", hand |-> 0, ace |-> FALSE, tape |-> <<>>, drawn |-> 0, first |-> <<>>]
CanDraw == replay.run = "first" => Len(replay.tape) < MaxTape
NextCards ==
    IF replay.run = "second" /\ replay.tape # <<>> THEN {Head(replay.tape)} ELSE draw_card
Dealt(card) ==
    CASE replay.run = "off" -> replay
      [] replay.run = "first" ->
           [replay EXCEPT !.tape = Append(@, card), !.drawn = @ + 1]
      [] replay.run = "second" ->
           [replay EXCEPT !.tape = IF @ = <<>> THEN @ ELSE Tail(@),
                          !.drawn = IF @ <= MaxTape THEN @ + 1 ELSE @]

\* lines 134-141: the state when the first test of blackjack() is reached
Init ==
    /\ player_value_cards \in InitialHands
    /\ dealer_cards \in DealerCardValues \X DealerCardValues
    /\ policy \in Policies
    /\ has_usable_ace \in BOOLEAN
    /\ reward = 0
    /\ hist_reward = <<0>>
    /\ hist_action = <<0>>
    /\ dealer_value_cards = dealer_cards[1] + dealer_cards[2]
    /\ dealer_draws = 0
    /\ result = <<>>
    /\ pc = "start"
    /\ replay = ReplayOff
    /\ GridOff

\* lines 144-151: "Stick if you have 21"; the return gives the reward alone
Natural ==
    /\ pc = "start"
    /\ IsNatural(player_value_cards, dealer_value_cards)
    /\ reward' = 1
    /\ hist_reward' = Append(hist_reward, 1)
    /\ hist_action' = Append(hist_action, 1)
    /\ result' = <<1>>
    /\ pc' = "done"
    /\ UNCHANGED <<player_value_cards, dealer_cards, policy, has_usable_ace,
                   dealer_value_cards, dealer_draws, replay>>
    /\ UNCHANGED gridvars

NotNatural ==
    /\ pc = "start"
    /\ ~IsNatural(player_value_cards, dealer_value_cards)
    /\ pc' = "player"
    /\ UNCHANGED <<player_value_cards, dealer_cards, policy, has_usable_ace, reward,
                   hist_reward, hist_action, dealer_value_cards, dealer_draws, result,
                   replay>>
    /\ UNCHANGED gridvars

\* line 160: the test of the player loop
PlayerTest ==
    /\ pc = "player"
    /\ pc' = IF PolicySticks(policy, player_value_cards) THEN "dealer_call" ELSE "hit"
    /\ UNCHANGED <<player_value_cards, dealer_cards, policy, has_usable_ace, reward,
                   hist_reward, hist_action, dealer_value_cards, dealer_draws, result,
                   replay>>
    /\ UNCHANGED gridvars

\* lines 161-169: the body of the player loop
PlayerHit ==
    /\ pc = "hit"
    /\ Len(hist_reward) < MaxHist
    /\ CanDraw
    /\ \E new_card \in NextCards :
         LET u == HitUpdate(player_value_cards, has_usable_ace, new_card) IN
           /\ player_value_cards' = u[1]
           /\ has_usable_ace' = u[2]
           /\ hist_reward' = Append(hist_reward, 0)
           /\ hist_action' = Append(hist_action, 0)
           /\ pc' = IF u[1] > 21 THEN "dealer_call" ELSE "player"
           /\ replay' = Dealt(new_card)
    /\ UNCHANGED <<dealer_cards, policy, reward, dealer_value_cards, dealer_draws, result>>
    /\ UNCHANGED gridvars

\* line 171: the call dealer_strategy(sum(dealer_cards))
DealerCall ==
    /\ pc = "dealer_call"
    /\ dealer_value_cards' = dealer_cards[1] + dealer_cards[2]
    /\ pc' = "dealer"
    /\ UNCHANGED <<player_value_cards, dealer_cards, policy, has_usable_ace, reward,
                   hist_reward, hist_action, dealer_draws, result, replay>>
    /\ UNCHANGED gridvars

\* line 71: the test of dealer_strategy's loop
DealerTest ==
    /\ pc = "dealer"
    /\ pc' = IF DealerDrawsAt(dealer_value_cards) THEN "dealer_draw" ELSE "settle"
    /\ UNCHANGED <<player_value_cards, dealer_cards, policy, has_usable_ace, reward,
                   hist_reward, hist_action, dealer_value_cards, dealer_draws, result,
                   replay>>
    /\ UNCHANGED gridvars

\* line 72: value_cards = value_cards + draw_card()
DealerDraw ==
    /\ pc = "dealer_draw"
    /\ CanDraw
    /\ \E card \in NextCards :
         /\ dealer_value_cards' = dealer_value_cards + card
         /\ replay' = Dealt(card)
    /\ dealer_draws' = IF dealer_draws < MaxDraws THEN dealer_draws + 1 ELSE dealer_draws
    /\ pc' = "dealer"
    /\ UNCHANGED <<player_value_cards, dealer_cards, policy, has_usable_ace, reward,
                   hist_reward, hist_action, result>>
    /\ UNCHANGED gridvars

\* lines 173-182: the reward, its entry in the history, the return
Settle ==
    /\ pc = "settle"
    /\ reward' = FinalReward(player_value_cards, dealer_value_cards)
    /\ hist_reward' = Append(hist_reward, reward')
    /\ result' = <<reward', hist_reward'>>
    /\ pc' = "done"
    /\ UNCHANGED <<player_value_cards, dealer_cards, policy, has_usable_ace,
                   hist_action, dealer_value_cards, dealer_draws, replay>>
    /\ UNCHANGED gridvars

Next ==
    \/ Natural
    \/ NotNatural
    \/ PlayerTest
    \/ PlayerHit
    \/ DealerCall
    \/ DealerTest
    \/ DealerDraw
    \/ Settle

Spec == Init /\ [][Next]_vars

\* blackjack() is one synchronous call: a step that can be taken is taken
FairSpec == Init /\ [][Next]_vars /\ WF_vars(Next)

\* ---- two plays on one stream of cards
\* What a finished play leaves behind
Outcome ==
    [player |-> player_value_cards, dealer |-> dealer_value_cards, reward |-> reward,
     hist_reward |-> hist_reward, result |-> result, drawn |-> replay.drawn]

PairHands == {12, 16, 20, 21}
PairDealerCards == {<<10, 6>>, <<10, 11>>, <<2, 5>>, <<10, 10>>, <<6, 6>>}
PairPolicies == {PolicyOf(S) : S \in {{20, 21}, {}, {17, 18, 19, 20, 21}}}

\* lines 134-141, the first of the two calls
PairInit ==
    /\ player_value_cards \in PairHands
    /\ dealer_cards \in PairDealerCards
    /\ policy \in PairPolicies
    /\ has_usable_ace \in BOOLEAN
    /\ reward = 0
    /\ hist_reward = <<0>>
    /\ hist_action = <<0>>
    /\ dealer_value_cards = dealer_cards[1] + dealer_cards[2]
    /\ dealer_draws = 0
    /\ result = <<>>
    /\ pc = "start"
    /\ replay = [run |-> "first", hand |-> player_value_cards, ace |-> has_usable_ace,
                 tape |-> <<>>, drawn |-> 0, first |-> <<>>]
    /\ GridOff

\* lines 134-141, the second call: the arguments of the first one except for
\* has_usable_ace, and the stream of cards rewound
SecondPlay ==
    /\ pc = "done"
    /\ replay.run = "first"
    /\ player_value_cards' = replay.hand
    /\ has_usable_ace' = ~replay.ace
    /\ reward' = 0
    /\ hist_reward' = <<0>>
    /\ hist_action' = <<0>>
    /\ dealer_value_cards' = dealer_cards[1] + dealer_cards[2]
    /\ dealer_draws' = 0
    /\ result' = <<>>
    /\ pc' = "start"
    /\ replay' = [replay EXCEPT !.run = "second", !.drawn = 0, !.first = Outcome]
    /\ UNCHANGED <<dealer_cards, policy>>
    /\ UNCHANGED gridvars

PairNext ==
    \/ Natural
    \/ NotNatural
    \/ PlayerTest
    \/ PlayerHit
    \/ DealerCall
    \/ DealerTest
    \/ DealerDraw
    \/ Settle
    \/ SecondPlay

PairSpec == PairInit /\ [][PairNext]_vars

----------------------------------------------------------------------------
(* Gridworld: src/ch03/gridworld-example.ipynb *)

n_actions == 4
n_rewards == 4
state_size == 25
GridWidth == 5

States == 0..(state_size - 1)
RewardIx == 0..(n_rewards - 1)
ActionIx == 0..(n_actions - 1)

\* Probabilities are kept as integers in units of 1/Unit.  A (state, action)
\* column is written n_rewards times, so a column sum is one of 0..4 and
\* every quotient of the normalisation is exact
Unit == 3 * 4
\* 0/0 of the normalisation
NaN == 0 - 1

\* rewards = np.array([0, 5, 10, -1]); reward_map is its inverse
rewards == [i \in RewardIx |-> CASE i = 0 -> 0 [] i = 1 -> 5 [] i = 2 -> 10 [] i = 3 -> 0 - 1]
reward_map(r) == CHOOSE i \in RewardIx : rewards[i] = r

\* actions = ["up", "right", "down", "left"]; actions_ix_map is its inverse
actions == [i \in ActionIx |->
              CASE i = 0 -> "up" [] i = 1 -> "right" [] i = 2 -> "down" [] i = 3 -> "left"]
actions_ix_map(a) == CHOOSE i \in ActionIx : actions[i] = a

action_mapMutant(a) ==
    CASE a = "up" -> <<1, 0>>
      [] a = "right" -> <<0, 1>>
      [] a = "down" -> <<0 - 1, 0>>
      [] a = "left" -> <<0, 0 - 1>>
action_map(a) ==
    CASE a = "up" -> <<0 - 1, 0>>
      [] a = "right" -> <<0, 1>>
      [] a = "down" -> <<1, 0>>
      [] a = "left" -> <<0, 0 - 1>>

\* special_map: special state -> reward; special_state_map: special state -> landing state
special_states == {1, 3}
special_map(s) == CASE s = 1 -> 10 [] s = 3 -> 5
special_state_mapMutant(s) == CASE s = 1 -> 13 [] s = 3 -> 21
special_state_map(s) == CASE s = 1 -> 21 [] s = 3 -> 13

get_pos(ix) == <<ix \div GridWidth, ix % GridWidth>>
get_state(position) == GridWidth * position[1] + position[2]
move(state, action) ==
    <<get_pos(state)[1] + action_map(action)[1], get_pos(state)[2] + action_map(action)[2]>>

\* is_out_of_bounds(position, lb=0, ub=4) does not read its parameter: its body
\* tests the global new_pos, passed here as global_new_pos
is_out_of_boundsMutant(position, global_new_pos) ==
    global_new_pos[1] < 0 \/ global_new_pos[2] < 0
is_out_of_bounds(position, global_new_pos) ==
    \/ global_new_pos[1] < 0 \/ global_new_pos[2] < 0
    \/ global_new_pos[1] > 4 \/ global_new_pos[2] > 4

\* val of lines 192-204, for state s, reward r, and whether the move is out of bounds
CellValueMutant(s, r, out) ==
    IF s \in special_states THEN (IF r = special_map(s) THEN 1 ELSE 0)
    ELSE IF out THEN (IF r = 0 - 1 \/ r = 0 THEN 1 ELSE 0)
    ELSE IF r = 0 THEN 1 ELSE 0
CellValue(s, r, out) ==
    IF s \in special_states THEN (IF r = special_map(s) THEN 1 ELSE 0)
    ELSE IF out THEN (IF r = 0 - 1 THEN 1 ELSE 0)
    ELSE IF r = 0 THEN 1 ELSE 0

\* new_pos after lines 189-201
CellNewPos(s, action) ==
    LET moved == move(s, action) IN
    IF s \in special_states THEN get_pos(special_state_map(s))
    ELSE IF is_out_of_bounds(moved, moved) THEN get_pos(s)
    ELSE moved

\* new_state after lines 190-202
CellNewState(s, action) ==
    LET moved == move(s, action) IN
    IF s \in special_states THEN special_state_map(s)
    ELSE IF is_out_of_bounds(moved, moved) THEN s
    ELSE get_state(moved)

RECURSIVE SumTo(_, _)
\* f(0) + ... + f(n - 1)
SumTo(f(_), n) == IF n = 0 THEN 0 ELSE SumTo(f, n - 1) + f(n - 1)

\* np.zeros((state_size, n_rewards, n_actions, state_size))
ZeroTensor == [sn \in States |-> [r \in RewardIx |-> [a \in ActionIx |-> [s \in States |-> 0]]]]

\* p_gridworld.sum(axis=0, keepdims=True).sum(axis=1, keepdims=True) at column (a, s)
ColumnSum(p, a, s) ==
    LET OverRewards(sn) == LET At(r) == p[sn][r][a][s] IN SumTo(At, n_rewards)
    IN SumTo(OverRewards, state_size)

\* x / d of two values kept in units of 1/Unit
Quotient(x, d) == IF d = 0 THEN NaN ELSE (x * Unit) \div d

\* line 210: every entry divided by the sum of its column
Normalised(p) ==
    [sn \in States |-> [r \in RewardIx |-> [a \in ActionIx |-> [s \in States |->
        Quotient(p[sn][r][a][s], ColumnSum(p, a, s))]]]]

\* line 231: gamma = 0.9 = GammaNum / GammaDen
GammaNum == 9
GammaDen == 10

\* line 221: b[s] = sum over s', r, a of r * p / 4, kept as its numerator over 4 * Unit
BVector(p) ==
    [s \in States |->
        LET OverActions(sn) ==
              LET OverRewards(a) ==
                    LET At(r) == p[sn][r][a][s] * rewards[r] IN SumTo(At, n_rewards)
              IN SumTo(OverRewards, n_actions)
        IN SumTo(OverActions, state_size)]

\* p_gridworld.sum(axis=1).sum(axis=1): entry [s'][s]
SumRewardsActions(p, sn, s) ==
    LET OverActions(a) == LET At(r) == p[sn][r][a][s] IN SumTo(At, n_rewards)
    IN SumTo(OverActions, n_actions)

\* line 233: A = I - gamma / 4 * (...).T, kept as its numerator over 4 * GammaDen * Unit
AMatrixMutant(p) ==
    [i \in States |-> [j \in States |->
        (IF i = j THEN n_actions * GammaDen * Unit ELSE 0) - GammaNum * SumRewardsActions(p, i, j)]]
AMatrix(p) ==
    [i \in States |-> [j \in States |->
        (IF i = j THEN n_actions * GammaDen * Unit ELSE 0) - GammaNum * SumRewardsActions(p, j, i)]]

\* Values (entries of vs, lookahead sums) are kept as integers in units of
\* 1/ValueDen.  The fixed point of the optimality equation of this grid has
\* v(A) = 10 / (1 - 0.9^5) = 1000000 / 40951, and every value it takes, times
\* 0.9, is a whole number of these units
ValueDen == 40951 * 100

RECURSIVE Pow(_, _)
Pow(x, n) == IF n = 0 THEN 1 ELSE x * Pow(x, n - 1)

\* line 329
n_dec == 3

\* ndarray.round(n_dec) of x / ValueDen, as a whole number of 10^-n_dec
\* (numpy rounds a half to the even neighbour); x * 10^n_dec / ValueDen is
\* reduced by 100 first, to stay inside 32-bit integers
RoundDec(x) ==
    LET num == x * Pow(10, n_dec - 2)
        den == ValueDen \div Pow(10, 2)
        q == num \div den
        rem2 == 2 * (num % den)
    IN IF rem2 > den \/ (rem2 = den /\ q % 2 = 1) THEN q + 1 ELSE q

\* lines 281 and 330: ((rewards[None, :] + gamma * vs[:, None])[..., None, None]
\* * p_gridworld).sum(axis=0).sum(axis=0), entry [a][s]
LookaheadMutant(vs, p, a, s) ==
    LET OverRewards(sn) ==
          LET At(r) == (rewards[r] * ValueDen + (GammaNum * vs[s]) \div GammaDen) * p[sn][r][a][s]
          IN SumTo(At, n_rewards)
    IN SumTo(OverRewards, state_size) \div Unit
Lookahead(vs, p, a, s) ==
    LET OverRewards(sn) ==
          LET At(r) == (rewards[r] * ValueDen + (GammaNum * vs[sn]) \div GammaDen) * p[sn][r][a][s]
          IN SumTo(At, n_rewards)
    IN SumTo(OverRewards, state_size) \div Unit

\* the largest element of a non-empty finite set of integers
MaxOf(S) == CHOOSE x \in S : \A y \in S : y <= x

\* lines 280-284: bellman_optimality(vs) = vs - rhs.max(axis=0)
bellman_optimality(vs, p) ==
    [s \in States |-> vs[s] - MaxOf({Lookahead(vs, p, a, s) : a \in ActionIx})]

\* lines 330-331: the rounded lookahead compared with the rounded vs_star
OptimalActions(vs, p) ==
    [a \in ActionIx |-> [s \in States |->
        RoundDec(Lookahead(vs, p, a, s)) = RoundDec(vs[s])]]

\* ---- vectors the root finder of line 310 may hand to the next cell
\* the solution of the optimality equation: v(A) = 10 / (1 - 0.9^5),
\* v(B) = v(A) - 5, the cell right of B steps into B, every other cell walks
\* to A (state 1) in row + |col - 1| steps
StepsToA(s) ==
    LET row == s \div GridWidth
        col == s % GridWidth
    IN row + (IF col >= 1 THEN col - 1 ELSE 1 - col)
ViaA(s) == Pow(10, 8 - StepsToA(s)) * Pow(GammaNum, StepsToA(s))
ValueOfB == Pow(10, 8) - 5 * ValueDen
ExactSolution ==
    [s \in States |->
        IF s = 3 THEN ValueOfB
        ELSE IF s = 4 THEN (GammaNum * ValueOfB) \div GammaDen
        ELSE ViaA(s)]
\* a vector that is off by 0.01 in one state, and the zero vector
NearSolution == [ExactSolution EXCEPT ![12] = @ + ValueDen \div 100]
SolverResults == {ExactSolution, NearSolution, [s \in States |-> 0]}

BlackjackOff ==
    /\ player_value_cards = 0
    /\ dealer_cards = <<>>
    /\ policy = <<>>
    /\ has_usable_ace = FALSE
    /\ reward = 0
    /\ hist_reward = <<>>
    /\ hist_action = <<>>
    /\ dealer_value_cards = 0
    /\ dealer_draws = 0
    /\ result = <<>>
    /\ pc = "off"
    /\ replay = ReplayOff

\* line 182: the tensor of zeros, before the first iteration of the loops
GridInit ==
    /\ p_gridworld = ZeroTensor
    /\ g_s = 0 /\ g_r = 0 /\ g_a = 0
    /\ new_pos = <<0, 0>>
    /\ new_state = 0
    /\ b = <<>>
    /\ A = <<>>
    /\ vs_star = <<>>
    /\ optimal_actions = <<>>
    /\ gpc = "build"
    /\ BlackjackOff

\* lines 183-209: one iteration of the innermost loop
\* (for s in range(state_size): for r in reward_map: for action in action_map)
BuildStep ==
    /\ gpc = "build"
    /\ LET s == g_s
           r == rewards[g_r]
           action == actions[g_a]
           a_pos == actions_ix_map(action)
           r_pos == reward_map(r)
           moved == move(s, action)
           val == CellValue(s, r, is_out_of_bounds(moved, moved))
       IN /\ new_pos' = CellNewPos(s, action)
          /\ new_state' = CellNewState(s, action)
          /\ p_gridworld' = [p_gridworld EXCEPT ![new_state'][r_pos][a_pos][s] = val * Unit]
    /\ IF g_a < n_actions - 1
       THEN g_a' = g_a + 1 /\ UNCHANGED <<g_r, g_s, gpc>>
       ELSE /\ g_a' = 0
            /\ IF g_r < n_rewards - 1
               THEN g_r' = g_r + 1 /\ UNCHANGED <<g_s, gpc>>
               ELSE /\ g_r' = 0
                    /\ IF g_s < state_size - 1
                       THEN g_s' = g_s + 1 /\ UNCHANGED gpc
                       ELSE UNCHANGED g_s /\ gpc' = "normalise"
    /\ UNCHANGED <<b, A, vs_star, optimal_actions>>
    /\ UNCHANGED bjvars

\* line 210
Normalise ==
    /\ gpc = "normalise"
    /\ p_gridworld' = Normalised(p_gridworld)
    /\ gpc' = "b"
    /\ UNCHANGED <<g_s, g_r, g_a, new_pos, new_state, b, A, vs_star, optimal_actions>>
    /\ UNCHANGED bjvars

\* line 221
ComputeB ==
    /\ gpc = "b"
    /\ b' = BVector(p_gridworld)
    /\ gpc' = "A"
    /\ UNCHANGED <<p_gridworld, g_s, g_r, g_a, new_pos, new_state, A, vs_star, optimal_actions>>
    /\ UNCHANGED bjvars

\* lines 231-233
ComputeA ==
    /\ gpc = "A"
    /\ A' = AMatrix(p_gridworld)
    /\ gpc' = "done"
    /\ UNCHANGED <<p_gridworld, g_s, g_r, g_a, new_pos, new_state, b, vs_star, optimal_actions>>
    /\ UNCHANGED bjvars

\* lines 309-311: vs_star = optimize.broyden1(bellman_optimality, vs); the
\* library's iteration is not modelled, its result is one of SolverResults
Solve ==
    /\ gpc = "done"
    /\ vs_star' \in SolverResults
    /\ gpc' = "solved"
    /\ UNCHANGED <<p_gridworld, g_s, g_r, g_a, new_pos, new_state, b, A, optimal_actions>>
    /\ UNCHANGED bjvars

\* lines 329-331
ComputeOptimalActions ==
    /\ gpc = "solved"
    /\ optimal_actions' = OptimalActions(vs_star, p_gridworld)
    /\ gpc' = "optimal"
    /\ UNCHANGED <<p_gridworld, g_s, g_r, g_a, new_pos, new_state, b, A, vs_star>>
    /\ UNCHANGED bjvars

GridNext ==
    \/ BuildStep
    \/ Normalise
    \/ ComputeB
    \/ ComputeA
    \/ Solve
    \/ ComputeOptimalActions

GridSpec == GridInit /\ [][GridNext]_vars

----------------------------------------------------------------------------
(* Properties of blackjack() *)

Returned == pc = "done"
\* dealer_strategy has returned: the play is at line 173 or beyond it
DealerReturned == pc = "settle" \/ (pc = "done" /\ Len(result) = 2)
DealerSum == dealer_cards[1] + dealer_cards[2]
\* the model stopped a player loop because hist_reward is full
Truncated == pc = "hit" /\ Len(hist_reward) >= MaxHist

\* C1: a play that ends with the player's total above 21 returns reward -1,
\* whatever total the dealer reached (a dealer total above 21 included).
C1_BustReturnsMinusOne ==
    (Returned /\ player_value_cards > 21) => (Len(result) >= 1 /\ result[1] = -1 /\ reward = -1)

C1_Witness ==
    /\ Returned
    /\ player_value_cards > 21
    /\ dealer_value_cards > 21
    /\ result[1] = -1

\* C2: with a policy table that marks stick for 20 and for 21, no step of the
\* play draws a card for the player while the player's total is 20 or 21.
MarksStickAt20And21 == policy[20 - 12][1] = 1 /\ policy[21 - 12][1] = 1

C2_NoDrawAtTwentyOrMore ==
    [][(MarksStickAt20And21 /\ player_value_cards \in {20, 21})
         => (~PlayerHit /\ pc' # "hit")]_vars

\* 20 or 21 reached after hits, and the play went on to the dealer without another hit
C2_Witness ==
    /\ MarksStickAt20And21
    /\ player_value_cards \in {20, 21}
    /\ Len(hist_action) >= 2
    /\ pc = "dealer"

\* C7: every call returns a reward in {+1, 0, -1} together with a step history
\* whose last entry is that reward.
C7_ReturnsRewardAndHistory ==
    Returned =>
        /\ Len(result) = 2
        /\ result[1] \in {1, 0, -1}
        /\ Len(result[2]) >= 1
        /\ result[2][Len(result[2])] = result[1]

\* C8: every play ends: the player loop and the dealer loop each stop after
\* finitely many draws (a play the model cut short at MaxHist counts as ended).
C8_Terminates == <>(Returned \/ Truncated)

\* C10: dealer_strategy returns a total of at least 17, returns its input
\* unchanged and draws nothing when the input is 17 or more, draws at least
\* once when it is below 17, and never draws at a total of 17 or more.
C10_DealerRule ==
    /\ DealerReturned => dealer_value_cards >= 17
    /\ (DealerReturned /\ DealerSum >= 17) => (dealer_value_cards = DealerSum /\ dealer_draws = 0)
    /\ (DealerReturned /\ DealerSum < 17) => dealer_draws >= 1
    /\ pc = "dealer_draw" => dealer_value_cards < 17

C10_Witness ==
    /\ DealerReturned
    /\ DealerSum < 17
    /\ dealer_draws >= 2
    /\ dealer_value_cards >= 17

\* no card has been drawn for the player: player_value_cards is still the
\* initial hand (hist_action is [0], or [0, 1] after the return of line 151)
NoHitYet == hist_action \in {<<0>>, <<0, 1>>}
\* the play has left the test of line 144 with an initial hand of 21
Initial21 == NoHitYet /\ player_value_cards = 21 /\ pc # "start"
NoDealerDraw == dealer_draws = 0 /\ dealer_value_cards = DealerSum /\ pc # "dealer_draw"

\* C13: an initial 21 against dealer cards that do not sum to 21 ends at once
\* with reward +1 and no draw by either side; an initial 21 against dealer
\* cards that sum to 21 has the player stick, the dealer draw nothing and the
\* reward 0.
C13_Initial21 ==
    /\ (Initial21 /\ DealerSum # 21) =>
          (Returned /\ result[1] = 1 /\ reward = 1 /\ NoDealerDraw)
    /\ (Initial21 /\ DealerSum = 21) =>
          (pc # "hit" /\ NoDealerDraw /\ (Returned => (result[1] = 0 /\ reward = 0)))

\* What the code does keep of it: the first case, and the second case for a
\* policy table that marks stick for 21.
Initial21UnderStickingPolicy ==
    /\ (Initial21 /\ DealerSum # 21) =>
          (Returned /\ result[1] = 1 /\ reward = 1 /\ NoDealerDraw)
    /\ (Initial21 /\ DealerSum = 21 /\ policy[21 - 12][1] = 1) =>
          (pc # "hit" /\ NoDealerDraw /\ (Returned => (result[1] = 0 /\ reward = 0)))

\* The second of two plays on one stream of cards has returned
SecondReturned == replay.run = "second" /\ pc = "done"

\* C14: two plays with the same initial hand value, dealer cards, policy and
\* sequence of drawn cards, differing only in the initial has_usable_ace, draw
\* the same number of cards, reach the same player and dealer totals and
\* return the same reward and reward history; a hand with a usable ace that
\* goes over 21 stays over 21.
C14_UsableAceIsIgnored ==
    SecondReturned =>
        /\ replay.drawn = replay.first.drawn
        /\ replay.tape = <<>>
        /\ player_value_cards = replay.first.player
        /\ dealer_value_cards = replay.first.dealer
        /\ reward = replay.first.reward
        /\ hist_reward = replay.first.hist_reward
        /\ result = replay.first.result

\* the play that was told of a usable ace went over 21 after a hit and lost,
\* as did the play that was told of none
C14_Witness ==
    /\ SecondReturned
    /\ ~replay.ace
    /\ has_usable_ace
    /\ Len(hist_action) > 1
    /\ player_value_cards > 21
    /\ replay.first.player > 21
    /\ result[1] = 0 - 1
    /\ replay.drawn > 0

\* C15: when a play returns with the player's total at most 21 the reward is
\* +1 exactly when the dealer's final total exceeds 21 or the player's total
\* is strictly greater than it, and 0 otherwise; the reward is -1 exactly
\* when the player's total exceeds 21.
C15_RewardByTotals ==
    Returned =>
        /\ reward = result[1]
        /\ player_value_cards <= 21 =>
              /\ result[1] # 0 - 1
              /\ result[1] = 1 <=>
                    (dealer_value_cards > 21 \/ player_value_cards > dealer_value_cards)
              /\ result[1] # 1 => result[1] = 0
        /\ result[1] = 0 - 1 <=> player_value_cards > 21

\* the dealer ended at most 21 and strictly above the player: reward 0
C15_Witness ==
    /\ Returned
    /\ DealerReturned
    /\ dealer_draws > 0
    /\ player_value_cards < dealer_value_cards
    /\ dealer_value_cards <= 21
    /\ result[1] = 0
    /\ result[2] = Append(hist_action, 0)

----------------------------------------------------------------------------
(* Properties of the Gridworld notebook *)

\* the loops of the construction have ended
Constructed == gpc \in {"normalise", "b", "A", "done", "solved", "optimal"}
\* line 210 has run: p_gridworld is the tensor the later cells read
Built == gpc \in {"b", "A", "done", "solved", "optimal"}

\* (sn, r) is the one outcome of (s, a): probability 1 there and 0 everywhere else
OnlyOutcome(s, a, sn, r) ==
    \A x \in States : \A ri \in RewardIx :
        p_gridworld[x][ri][a][s] = IF x = sn /\ rewards[ri] = r THEN Unit ELSE 0

\* the move of action a from state s leaves the 5 x 5 grid
LeavesGrid(s, a) ==
    LET row == s \div GridWidth
        col == s % GridWidth
    IN \/ actions[a] = "up" /\ row = 0
       \/ actions[a] = "right" /\ col = GridWidth - 1
       \/ actions[a] = "down" /\ row = GridWidth - 1
       \/ actions[a] = "left" /\ col = 0

\* C3: from A (state 1) every action leads to A' (state 21) with reward +10 and
\* from B (state 3) every action leads to B' (state 13) with reward +5, with
\* probability 1 and no other outcome.
C3_SpecialCells ==
    Built => \A a \in ActionIx : OnlyOutcome(1, a, 21, 10) /\ OnlyOutcome(3, a, 13, 5)

C3_Witness ==
    /\ Built
    /\ p_gridworld[21][reward_map(10)][actions_ix_map("up")][1] = Unit
    /\ p_gridworld[13][reward_map(5)][actions_ix_map("left")][3] = Unit

\* C4 as stated: for every state s and every action whose move leaves the
\* grid, the one outcome is (next state s, reward -1).
C4_EveryBoundaryMoveStays ==
    Built => \A s \in States : \A a \in ActionIx :
                LeavesGrid(s, a) => OnlyOutcome(s, a, s, 0 - 1)

\* C4 as amended: for every state s other than the special cells A and B and
\* every action whose move leaves the grid, the one outcome is (next state s,
\* reward -1).
C4_BoundaryMoveStays ==
    Built => \A s \in States \ special_states : \A a \in ActionIx :
                LeavesGrid(s, a) => OnlyOutcome(s, a, s, 0 - 1)

\* the corner 24 keeps its place for "right" and for "down", and state 2, between
\* A and B on the top row, for "up"
C4_Witness ==
    /\ Built
    /\ p_gridworld[24][reward_map(0 - 1)][actions_ix_map("right")][24] = Unit
    /\ p_gridworld[24][reward_map(0 - 1)][actions_ix_map("down")][24] = Unit
    /\ p_gridworld[2][reward_map(0 - 1)][actions_ix_map("up")][2] = Unit

\* the next state and the immediate reward of (s, a), read off the tensor
NextStateOf(s, a) == CHOOSE sn \in States : \E ri \in RewardIx : p_gridworld[sn][ri][a][s] = Unit
RewardOf(s, a) ==
    rewards[CHOOSE ri \in RewardIx : \E sn \in States : p_gridworld[sn][ri][a][s] = Unit]

\* value vectors on which two linear equations in v are compared: the zero
\* vector, the 25 unit vectors (they fix every coefficient) and one more
TestVectors ==
    {[s \in States |-> 0]}
      \cup {[s \in States |-> IF s = k THEN 1 ELSE 0] : k \in States}
      \cup {[s \in States |-> s * s - 7]}

\* (A v - b)[s], times 4 * GammaDen * Unit
RowResidual(s, v) ==
    LET Term(sn) == A[s][sn] * v[sn] IN SumTo(Term, state_size) - GammaDen * b[s]

\* v(s) - sum over a of 1/4 * (reward(s, a) + gamma * v(next(s, a))), times 4 * GammaDen
BellmanResidual(s, v) ==
    LET Term(a) == GammaDen * RewardOf(s, a) + GammaNum * v[NextStateOf(s, a)]
    IN n_actions * GammaDen * v[s] - SumTo(Term, n_actions)

\* C5: for every state s other than the two special cells, row s of A v = b is
\* the equation v(s) = sum over the 4 actions of 1/4 * (reward + 0.9 * v(next)):
\* the two sides differ by the same amount for every v.
C5_RowsAreBellmanEquations ==
    gpc = "done" =>
        \A s \in States \ special_states : \A v \in TestVectors :
            RowResidual(s, v) = Unit * BellmanResidual(s, v)

\* the system is built; row 0 is the corner with two moves that leave the grid
C5_Witness ==
    /\ gpc = "done"
    /\ A[0][0] = (n_actions * GammaDen - 2 * GammaNum) * Unit
    /\ A[0][1] = (0 - GammaNum) * Unit
    /\ b[0] = (0 - 2) * Unit

\* every column (s, a) of p: entries >= 0, sum 1, exactly one entry equal to 1
IsDistribution(p) ==
    \A s \in States : \A a \in ActionIx :
        /\ \A sn \in States : \A ri \in RewardIx : p[sn][ri][a][s] >= 0
        /\ ColumnSum(p, a, s) = Unit
        /\ Cardinality({x \in States \X RewardIx : p[x[1]][x[2]][a][s] = Unit}) = 1

\* C9: when the loops end every (state, action) column of p_gridworld is a
\* probability distribution with exactly one outcome of probability 1, the
\* normalisation of line 210 changes no entry, and the tensor the later cells
\* read is such a distribution too.
C9_TensorIsDistribution ==
    /\ Constructed => IsDistribution(p_gridworld)
    /\ gpc = "normalise" => Normalised(p_gridworld) = p_gridworld

C9_Witness ==
    /\ gpc = "b"
    /\ p_gridworld[0][reward_map(0 - 1)][actions_ix_map("up")][0] = Unit
    /\ p_gridworld[6][reward_map(0)][actions_ix_map("right")][5] = Unit

\* the cell next to s in the direction of action a: up and down change the row
\* by -1 and +1, left and right change the column by -1 and +1
AdjacentCell(s, a) ==
    CASE actions[a] = "up" -> s - GridWidth
      [] actions[a] = "down" -> s + GridWidth
      [] actions[a] = "left" -> s - 1
      [] actions[a] = "right" -> s + 1

\* C11: for every state other than the special cells A and B and every action
\* whose move stays inside the grid, the one outcome is (next state = the
\* adjacent cell in the action's direction, reward 0).
C11_InteriorMoves ==
    Built => \A s \in States \ special_states : \A a \in ActionIx :
                ~LeavesGrid(s, a) => OnlyOutcome(s, a, AdjacentCell(s, a), 0)

\* the four moves of the centre cell 12, and a move into the special cell A
C11_Witness ==
    /\ Built
    /\ p_gridworld[7][reward_map(0)][actions_ix_map("up")][12] = Unit
    /\ p_gridworld[13][reward_map(0)][actions_ix_map("right")][12] = Unit
    /\ p_gridworld[17][reward_map(0)][actions_ix_map("down")][12] = Unit
    /\ p_gridworld[11][reward_map(0)][actions_ix_map("left")][12] = Unit
    /\ p_gridworld[1][reward_map(0)][actions_ix_map("right")][0] = Unit

\* the one-step lookahead of (s, a) for the value vector vs, from the outcome
\* of (s, a): reward + gamma * vs(next state), in units of 1/ValueDen
ActionValue(vs, s, a) ==
    RewardOf(s, a) * ValueDen + (GammaNum * vs[NextStateOf(s, a)]) \div GammaDen
BestActionValue(vs, s) == MaxOf({ActionValue(vs, s, a) : a \in ActionIx})
\* vs solves the Bellman optimality equation
IsOptimalityFixedPoint(vs) == \A s \in States : vs[s] = BestActionValue(vs, s)

\* C12: action a is marked optimal in state s exactly when its lookahead value
\* and vs_star(s), both rounded to 3 decimals, are equal; and when vs_star is
\* the fixed point of the Bellman optimality operator every state has a marked
\* action and the marked actions are exactly those of maximal lookahead value.
C12_OptimalActions ==
    gpc = "optimal" =>
        /\ \A s \in States : \A a \in ActionIx :
              optimal_actions[a][s]
                <=> (RoundDec(ActionValue(vs_star, s, a)) = RoundDec(vs_star[s]))
        /\ IsOptimalityFixedPoint(vs_star) =>
              \A s \in States :
                 /\ \E a \in ActionIx : optimal_actions[a][s]
                 /\ \A a \in ActionIx :
                       optimal_actions[a][s]
                         <=> (ActionValue(vs_star, s, a) = BestActionValue(vs_star, s))

\* the actions were derived from a root of bellman_optimality: only "right" in
\* the corner 0, all four in A, "up" and "left" in the centre
C12_Witness ==
    /\ gpc = "optimal"
    /\ bellman_optimality(vs_star, p_gridworld) = [s \in States |-> 0]
    /\ {a \in ActionIx : optimal_actions[a][0]} = {actions_ix_map("right")}
    /\ {a \in ActionIx : optimal_actions[a][1]} = ActionIx
    /\ {a \in ActionIx : optimal_actions[a][12]} = {actions_ix_map("up"), actions_ix_map("left")}

====
